---- MODULE Spec2Model ----
(***************************************************************************)
(* WrapAIVenice: the chat orchestrator (VeniceChatPrompt, prompt_chat.py), *)
(* the transport client it composes (VeniceTextPrompt, prompt_text.py),    *)
(* the conversation memory it owns and the model registry it consults.     *)
(*                                                                         *)
(* A text is a sequence of characters.  The two markers "<think>" and      *)
(* "</think>" are single elements of a text, so that searching for and     *)
(* replacing a marker is exact; they count 7 and 8 characters.             *)
(***************************************************************************)
EXTENDS Integers, Sequences, FiniteSets, TLC

VARIABLES
    messages,       \* memory.messages: sequence of [role, content]
    token_count,    \* memory.token_count
    max_tokens,     \* memory.max_tokens
    model,          \* _venice.model, the active model
    summary_model,  \* _summary_model (NoModel when not configured)
    models_data,    \* _models.models_data: set of <<name, limit>>, {} when not loaded
    last            \* the last operation: its arguments, outcome and result

vars == <<messages, token_count, max_tokens, model, summary_model, models_data, last>>

----------------------------------------------------------------------------
(* Bounds *)

MaxMsgs == 4

----------------------------------------------------------------------------
(* Texts *)

None == <<"None">>
NoModel == "None"

OpenTag == "<think>"
CloseTag == "</think>"

DefaultSystemPrompt ==
    <<"Y","o","u"," ","a","r","e"," ","h","e","l","p","f","u","l">>

DefaultSummaryPrompt ==
    <<"S","u","m","m","a","r","i","z","e"," ","t","h","i","s"," ",
      "c","o","n","v","e","r","s","a","t","i","o","n",".">>

SummaryFallback ==
    <<"S","u","m","m","a","r","y"," ","n","o","t"," ",
      "a","v","a","i","l","a","b","l","e",".">>

DefaultMaxTokens == 8000
DefaultBuffer == 200

\* Python truthiness of an optional string: None and "" are false
Truthy(text) == text # None /\ text # <<>>

CharWidth(c) == IF c = OpenTag THEN 7 ELSE IF c = CloseTag THEN 8 ELSE 1

RECURSIVE TextLen(_)
TextLen(text) ==
    IF text = <<>> THEN 0 ELSE CharWidth(Head(text)) + TextLen(Tail(text))

RECURSIVE LStrip(_)
LStrip(text) ==
    IF text # <<>> /\ Head(text) = " " THEN LStrip(Tail(text)) ELSE text

RECURSIVE RStrip(_)
RStrip(text) ==
    IF text # <<>> /\ text[Len(text)] = " "
    THEN RStrip(SubSeq(text, 1, Len(text) - 1))
    ELSE text

\* str.strip()
Strip(text) == RStrip(LStrip(text))

\* str.replace(tag, '')
Remove(text, tag) == SelectSeq(text, LAMBDA c : c # tag)

\* str.find('</think>'): the first position of the marker, 0 when absent
FindClose(text) ==
    IF \E i \in 1..Len(text) : text[i] = CloseTag
    THEN CHOOSE i \in 1..Len(text) :
            /\ text[i] = CloseTag
            /\ \A j \in 1..(i - 1) : text[j] # CloseTag
    ELSE 0

----------------------------------------------------------------------------
(* Inputs *)

KnownModels == {"small", "big"}
Models == KnownModels \cup {"mystery"}

\* what the models endpoint serves
Registry == {<<"small", 20>>, <<"big", 250>>}

UserTexts == {<<"a">>, <<"b", "b", "b">>}
SystemOverrides == {None, <<>>, <<"s">>}
SummaryPrompts == {DefaultSummaryPrompt, <<"S">>}
Buffers == {0, DefaultBuffer}

\* the content of choices[0].message of a served completion
Contents ==
    { <<"o", "k">>,
      <<CloseTag, OpenTag, " ", "r">> }

----------------------------------------------------------------------------
(* Conversation Memory *)

Msg(role, content) == [role |-> role, content |-> content]

\* token cost of a text: its length
calculate_tokens(text) == TextLen(text)

RECURSIVE SumCost(_)
SumCost(msgs) ==
    IF msgs = <<>> THEN 0
    ELSE calculate_tokens(Head(msgs).content) + SumCost(Tail(msgs))

\* a memory value: the three fields of a ConversationMemory
Memory(msgs, count, limit) ==
    [messages |-> msgs, token_count |-> count, max_tokens |-> limit]

NewMemory(system_prompt, limit) ==
    Memory(<<Msg("system", system_prompt)>>, calculate_tokens(system_prompt), limit)

add_message_stale(mem, role, content) ==
    [mem EXCEPT !.messages = Append(mem.messages, Msg(role, content))]

add_message(mem, role, content) ==
    [mem EXCEPT !.messages = Append(mem.messages, Msg(role, content)),
                !.token_count = mem.token_count + calculate_tokens(content)]

\* the new system message's cost added to the count, the old one's left in
update_system_prompt_adding(mem, text) ==
    [mem EXCEPT !.messages = [mem.messages EXCEPT ![1] = Msg("system", text)],
                !.token_count = mem.token_count + calculate_tokens(text)]

\* update_system_prompt(text): message 0 replaced, the count recomputed
update_system_prompt(mem, text) ==
    LET msgs == [mem.messages EXCEPT ![1] = Msg("system", text)]
    IN  [mem EXCEPT !.messages = msgs, !.token_count = SumCost(msgs)]

\* the messages dropped, the count left as it was
reset_keeping_count(mem, system_prompt) ==
    [mem EXCEPT !.messages =
        <<Msg("system", IF system_prompt # None THEN system_prompt
                        ELSE mem.messages[1].content)>>]

\* reset(system_prompt=None): a fresh system message, the caller's or the previous one
reset(mem, system_prompt) ==
    LET msgs == <<Msg("system", IF system_prompt # None THEN system_prompt
                                ELSE mem.messages[1].content)>>
    IN  [mem EXCEPT !.messages = msgs, !.token_count = SumCost(msgs)]

reset_with_summary_stale(mem, summary) ==
    [mem EXCEPT !.messages = <<Msg("system", mem.messages[1].content),
                               Msg("user", summary)>>]

reset_with_summary(mem, summary) ==
    LET msgs == <<Msg("system", mem.messages[1].content), Msg("user", summary)>>
    IN  [mem EXCEPT !.messages = msgs, !.token_count = SumCost(msgs)]

\* token_count > max_tokens * 0.8
over_threshold(mem) == 10 * mem.token_count > 8 * mem.max_tokens

----------------------------------------------------------------------------
(* Model Registry *)

Unknown == <<>>

IsInt(limit) == limit # Unknown

\* fetch_models: a fetch that succeeds stores what the endpoint serves,
\* a fetch that fails leaves the mapping as it was
fetch_models(data, fetched) == IF fetched THEN Registry ELSE data

get_tokens_by_model_name(data, name) ==
    LET hits == {p \in data : p[1] = name}
    IN  IF hits = {} THEN Unknown ELSE <<(CHOOSE p \in hits : TRUE)[2]>>

\* _ensure_models_loaded
ensure_models_loaded(data, fetched) ==
    IF data = {} THEN fetch_models(data, fetched) ELSE data

\* a fetch issued whether or not the mapping is loaded
ensure_fetches_always(data) == 1

\* the number of fetches _ensure_models_loaded issues
ensure_fetches(data) == IF data = {} THEN 1 ELSE 0

----------------------------------------------------------------------------
(* Transport: VeniceTextPrompt *)

NoResponse == [ok |-> FALSE, think |-> <<>>, response |-> <<>>]

parse_response(content) ==
    LET at == FindClose(content)
        think == IF at > 0 THEN Strip(SubSeq(content, 1, at - 1)) ELSE <<>>
        response == IF at > 0
                    THEN Strip(SubSeq(content, at + 1, Len(content)))
                    ELSE Strip(content)
    IN  [ok |-> TRUE,
         think |-> Remove(Remove(think, OpenTag), CloseTag),
         response |-> Remove(Remove(response, OpenTag), CloseTag)]

\* VeniceTextPrompt.prompt: the parsed response, or None for a failed request
\* (an outcome of kind "raise" never returns)
venice_prompt(outcome) ==
    IF outcome.kind = "ok" THEN parse_response(outcome.content) ELSE NoResponse

Call(m, msgs) == [model |-> m, messages |-> msgs]

\* the ways one POST to /chat/completions ends without a parsed completion:
\* the three except clauses and the "error" key of the served JSON
Failures == {"ReadTimeout", "HTTPError", "RequestException", "error payload"}

\* what can happen to one POST
Events == Failures \cup {"empty choices", "completion"}

\* a read timeout that no except clause handles
venice_request_uncaught(event, content) ==
    [kind |-> IF event \in Failures \ {"ReadTimeout"} THEN "fail"
              ELSE IF event = "completion" THEN "ok"
              ELSE "raise",
     why |-> event,
     content |-> IF event = "completion" THEN content ELSE <<>>]

\* the body of VeniceTextPrompt.prompt from the POST on: a failure is logged
\* and None returned ("fail"), choices == [] raises IndexError in
\* parse_response ("raise"), a completion is parsed ("ok")
venice_request(event, content) ==
    [kind |-> IF event \in Failures THEN "fail"
              ELSE IF event = "empty choices" THEN "raise"
              ELSE "ok",
     why |-> event,
     content |-> IF event = "completion" THEN content ELSE <<>>]

\* the request posted again after a failure
requests_posted_retrying(outcome, call) ==
    IF outcome.kind = "fail" THEN <<call, call>> ELSE <<call>>

\* the requests one VeniceTextPrompt.prompt call posts: requests.post is called
\* once, outside any loop, and every except clause returns
requests_posted(outcome, call) == <<call>>

\* what one POST to /chat/completions can come to
Outcomes ==
    {venice_request("RequestException", <<>>), venice_request("empty choices", <<>>)}
    \cup {venice_request("completion", c) : c \in Contents}

\* the same, every failure told apart
SendOutcomes ==
    {venice_request(e, <<>>) : e \in Events \ {"completion"}}
    \cup {venice_request("completion", c) : c \in Contents}

----------------------------------------------------------------------------
(* Chat Orchestrator: VeniceChatPrompt *)

\* list.append(msg) where the code inserts at position 1
insert_at_1_appending(trimmed, msg) == Append(trimmed, msg)

\* list.insert(1, msg)
insert_at_1(trimmed, msg) == <<Head(trimmed)>> \o <<msg>> \o Tail(trimmed)

\* the loop going on to older messages past one that does not fit
RECURSIVE trim_loop_skipping(_, _, _, _, _)
trim_loop_skipping(msgs, i, trimmed, current_tokens, target_limit) ==
    IF i < 2 THEN trimmed
    ELSE LET msg_tokens == calculate_tokens(msgs[i].content)
         IN  IF current_tokens + msg_tokens > target_limit
             THEN trim_loop_skipping(msgs, i - 1, trimmed, current_tokens, target_limit)
             ELSE trim_loop_skipping(msgs, i - 1, insert_at_1(trimmed, msgs[i]),
                                     current_tokens + msg_tokens, target_limit)

\* the loop over reversed(memory.messages[1:]); i is the position of msg
RECURSIVE trim_loop(_, _, _, _, _)
trim_loop(msgs, i, trimmed, current_tokens, target_limit) ==
    IF i < 2 THEN trimmed
    ELSE LET msg_tokens == calculate_tokens(msgs[i].content)
         IN  IF current_tokens + msg_tokens > target_limit
             THEN trimmed
             ELSE trim_loop(msgs, i - 1, insert_at_1(trimmed, msgs[i]),
                            current_tokens + msg_tokens, target_limit)

\* an unknown limit replaced by the constructor's default
trim_token_limit_defaulting(data, name, mem) ==
    LET model_token_limit == get_tokens_by_model_name(data, name)
    IN  IF IsInt(model_token_limit) THEN model_token_limit[1] ELSE DefaultMaxTokens

\* model_token_limit of get_trimmed_messages_for_model
trim_token_limit(data, name, mem) ==
    LET model_token_limit == get_tokens_by_model_name(data, name)
    IN  IF IsInt(model_token_limit) THEN model_token_limit[1] ELSE mem.max_tokens

\* the buffer left out of the budget
target_limit_of_no_buffer(limit, summary_prompt, buffer) ==
    limit - calculate_tokens(summary_prompt)

target_limit_of(limit, summary_prompt, buffer) ==
    limit - buffer - calculate_tokens(summary_prompt)

\* a system message that exceeds the budget left out with the history
get_trimmed_messages_for_model_dropping(mem, data, name, summary_prompt, buffer) ==
    LET target_limit ==
            target_limit_of(trim_token_limit(data, name, mem), summary_prompt, buffer)
        trimmed ==
            trim_loop(mem.messages, Len(mem.messages), <<mem.messages[1]>>,
                      calculate_tokens(mem.messages[1].content), target_limit)
    IN  IF calculate_tokens(mem.messages[1].content) > target_limit
        THEN <<Msg("user", summary_prompt)>>
        ELSE Append(trimmed, Msg("user", summary_prompt))

\* the running total started at zero, the system message not counted
get_trimmed_messages_for_model_uncharged(mem, data, name, summary_prompt, buffer) ==
    LET target_limit ==
            target_limit_of(trim_token_limit(data, name, mem), summary_prompt, buffer)
        trimmed ==
            trim_loop(mem.messages, Len(mem.messages), <<mem.messages[1]>>,
                      0, target_limit)
    IN  Append(trimmed, Msg("user", summary_prompt))

\* get_trimmed_messages_for_model, the registry already loaded into data
get_trimmed_messages_for_model(mem, data, name, summary_prompt, buffer) ==
    LET target_limit ==
            target_limit_of(trim_token_limit(data, name, mem), summary_prompt, buffer)
        trimmed ==
            trim_loop(mem.messages, Len(mem.messages), <<mem.messages[1]>>,
                      calculate_tokens(mem.messages[1].content), target_limit)
    IN  Append(trimmed, Msg("user", summary_prompt))

\* the memory in place of the trimmed list: the list is built in place
memory_after_trim_in_place(mem, trimmed) == [mem EXCEPT !.messages = trimmed]

\* get_trimmed_messages_for_model: the memory afterwards; trimmed is a list of
\* its own, so inserting into it and appending to it leave memory.messages alone
memory_after_trim(mem, trimmed) == mem

\* an unknown limit replaced by the constructor's default
set_model_memory_defaulting(mem, data, model_id) ==
    LET model_token_limit == get_tokens_by_model_name(data, model_id)
    IN  [mem EXCEPT !.max_tokens = IF IsInt(model_token_limit)
                                   THEN model_token_limit[1]
                                   ELSE DefaultMaxTokens]

\* set_model: the memory afterwards
set_model_memory(mem, data, model_id) ==
    LET model_token_limit == get_tokens_by_model_name(data, model_id)
    IN  IF IsInt(model_token_limit)
        THEN [mem EXCEPT !.max_tokens = model_token_limit[1]]
        ELSE mem

\* the override added as one more system message
prompt_request_memory_adding(mem, user_prompt, system_prompt) ==
    add_message(IF Truthy(system_prompt)
                THEN add_message(mem, "system", system_prompt)
                ELSE mem,
                "user", user_prompt)

\* prompt: the memory when the request is sent
prompt_request_memory(mem, user_prompt, system_prompt) ==
    add_message(IF Truthy(system_prompt)
                THEN update_system_prompt(mem, system_prompt)
                ELSE mem,
                "user", user_prompt)

\* the reply appended whatever the request came to
prompt_memory_always_replying(mem, user_prompt, system_prompt, outcome) ==
    add_message(add_message(IF Truthy(system_prompt)
                            THEN update_system_prompt(mem, system_prompt)
                            ELSE mem,
                            "user", user_prompt),
                "assistant", venice_prompt(outcome).response)

\* the budget enforced as a cap on every call
prompt_memory_capped(mem, user_prompt, system_prompt, outcome) ==
    LET sent == add_message(IF Truthy(system_prompt)
                            THEN update_system_prompt(mem, system_prompt)
                            ELSE mem,
                            "user", user_prompt)
    IN  IF mem.token_count > mem.max_tokens THEN mem
        ELSE IF outcome.kind # "raise" /\ venice_prompt(outcome).ok
        THEN add_message(sent, "assistant", venice_prompt(outcome).response)
        ELSE sent

\* the reply appended before the user message
prompt_memory_reply_first(mem, user_prompt, system_prompt, outcome) ==
    LET updated == IF Truthy(system_prompt)
                   THEN update_system_prompt(mem, system_prompt)
                   ELSE mem
        response == venice_prompt(outcome)
    IN  IF outcome.kind # "raise" /\ response.ok
        THEN add_message(add_message(updated, "assistant", response.response),
                         "user", user_prompt)
        ELSE add_message(updated, "user", user_prompt)

\* the reply appended twice
prompt_memory_replying_twice(mem, user_prompt, system_prompt, outcome) ==
    LET sent == prompt_request_memory(mem, user_prompt, system_prompt)
        response == venice_prompt(outcome)
    IN  IF outcome.kind # "raise" /\ response.ok
        THEN add_message(add_message(sent, "assistant", response.response),
                         "assistant", response.response)
        ELSE sent

\* prompt: the memory when the call ends
prompt_memory(mem, user_prompt, system_prompt, outcome) ==
    LET sent == prompt_request_memory(mem, user_prompt, system_prompt)
        response == venice_prompt(outcome)
    IN  IF outcome.kind # "raise" /\ response.ok
        THEN add_message(sent, "assistant", response.response)
        ELSE sent

\* the active model preferred to the configured summary model
choose_summary_model_active_first(model_override, configured, active) ==
    IF model_override # NoModel THEN model_override
    ELSE IF active # NoModel THEN active
    ELSE configured

\* summarize_memory: model_override or self._summary_model or self._venice.model
choose_summary_model(model_override, configured, active) ==
    IF model_override # NoModel THEN model_override
    ELSE IF configured # NoModel THEN configured
    ELSE active

\* an empty summary for a failed request
summary_of_empty_on_failure(outcome) ==
    LET response == venice_prompt(outcome)
    IN  IF response.ok THEN Strip(response.response) ELSE <<>>

\* the model put back only when the request returns
model_after_summarize_returning(active, chosen, outcome) ==
    IF outcome.kind = "raise" THEN chosen ELSE active

\* summarize_memory: the transport's model when the call ends; the finally
\* clause assigns old_model whether the request returned or raised
model_after_summarize(active, chosen, outcome) == active

\* summarize_memory: what it returns when the request returns
summary_of(outcome) ==
    LET response == venice_prompt(outcome)
    IN  IF response.ok THEN Strip(response.response) ELSE SummaryFallback

\* the summary appended to the history instead of replacing it
trim_memory_appending(mem, outcome) ==
    IF 10 * mem.token_count > 8 * mem.max_tokens /\ outcome.kind # "raise"
    THEN add_message(mem, "user",
                     IF venice_prompt(outcome).ok
                     THEN Strip(venice_prompt(outcome).response)
                     ELSE SummaryFallback)
    ELSE mem

\* the memory left alone when the summary request failed
trim_memory_keeping_on_failure(mem, outcome) ==
    IF over_threshold(mem) /\ outcome.kind = "ok"
    THEN reset_with_summary(mem, summary_of(outcome))
    ELSE mem

\* trim_and_summarize_if_needed: the memory when the call ends
trim_memory(mem, outcome) ==
    IF over_threshold(mem) /\ outcome.kind # "raise"
    THEN reset_with_summary(mem, summary_of(outcome))
    ELSE mem

\* the limit put back to the constructor's default as well
clear_memory_state_defaulting(mem) ==
    [reset(mem, None) EXCEPT !.max_tokens = DefaultMaxTokens]

\* clear_memory: self.memory.reset()
clear_memory_state(mem) == reset(mem, None)

----------------------------------------------------------------------------
(* The VeniceChatPrompt of venice_client.py, run beside the one of prompt_chat.py *)

\* what a call returns: the keys of a returned dictionary with its think and
\* response texts, a returned text, a returned list, or nothing (None)
Returned(keys, think, text, list) ==
    [keys |-> keys, think |-> think, text |-> text, list |-> list]
ReturnsNone == Returned({}, <<>>, <<>>, <<>>)
\* no value: the IndexError of parse_response leaves the call
RaisesIndexError == Returned({"IndexError"}, <<>>, <<>>, <<>>)

\* the keys prompt adds to the parsed response before returning it
PromptKeys == {"system_prompt", "user_prompt", "parameters"}

\* prompt of prompt_chat.py: the dictionary of prompt_text.py's parse_response
prompt_returns(outcome) ==
    IF outcome.kind = "ok"
    THEN Returned({"think", "response", "citations", "model", "created", "usage"}
                      \cup PromptKeys,
                  venice_prompt(outcome).think, venice_prompt(outcome).response, <<>>)
    ELSE IF outcome.kind = "raise" THEN RaisesIndexError
    ELSE ReturnsNone

\* prompt of venice_client.py: its parse_response extracts no citations
client_prompt_returns(outcome) ==
    IF outcome.kind = "ok"
    THEN Returned({"think", "response", "model", "created", "usage"} \cup PromptKeys,
                  venice_prompt(outcome).think, venice_prompt(outcome).response, <<>>)
    ELSE IF outcome.kind = "raise" THEN RaisesIndexError
    ELSE ReturnsNone

\* summarize_memory: the text returned, unless the request raises
summarize_returns(outcome) ==
    IF outcome.kind = "raise" THEN RaisesIndexError
    ELSE Returned({}, <<>>, summary_of(outcome), <<>>)

\* trim_and_summarize_if_needed: None, unless it fires and the request raises
trim_returns(mem, outcome) ==
    IF over_threshold(mem) /\ outcome.kind = "raise" THEN RaisesIndexError
    ELSE ReturnsNone

\* the methods of venice_client.py's VeniceChatPrompt, line for line those of
\* prompt_chat.py
client_prompt_memory(mem, user_prompt, system_prompt, outcome) ==
    prompt_memory(mem, user_prompt, system_prompt, outcome)
client_set_model_memory(mem, data, model_id) == set_model_memory(mem, data, model_id)
client_get_trimmed_messages_for_model(mem, data, name, summary_prompt, buffer) ==
    get_trimmed_messages_for_model(mem, data, name, summary_prompt, buffer)
client_summarize_returns(outcome) == summarize_returns(outcome)
client_trim_memory(mem, outcome) == trim_memory(mem, outcome)
client_trim_returns(mem, outcome) == trim_returns(mem, outcome)
client_clear_memory_state(mem) == clear_memory_state(mem)

\* the state of the second orchestrator and what its last call returned
Twin(memory, active, data, returned) ==
    [memory |-> memory, model |-> active, models_data |-> data, returned |-> returned]

----------------------------------------------------------------------------
(* State *)

mem == Memory(messages, token_count, max_tokens)

\* the record of an operation, every field at its default
Op(name) ==
    [op |-> name,
     user |-> None, sys |-> None, extra |-> None,
     target |-> NoModel, buffer |-> 0,
     outcome |-> "none", why |-> "none",
     response |-> NoResponse,
     summary |-> None,
     trimmed |-> <<>>,
     limit |-> 0,
     calls |-> <<>>,
     parsed |-> <<>>,
     docs |-> <<>>,
     returned |-> <<>>,
     twin |-> <<>>,
     fetches |-> 0]

SetMemory(new) ==
    /\ messages' = new.messages
    /\ token_count' = new.token_count
    /\ max_tokens' = new.max_tokens

\* VeniceChatPrompt.__init__: one fetch, the limit of the model or 8000
Init ==
    \E m \in Models, sm \in {NoModel, "big"}, fetched \in BOOLEAN :
        LET data == fetch_models({}, fetched)
            model_token_limit == get_tokens_by_model_name(data, m)
            new == NewMemory(DefaultSystemPrompt,
                             IF IsInt(model_token_limit)
                             THEN model_token_limit[1]
                             ELSE DefaultMaxTokens)
        IN  /\ messages = new.messages
            /\ token_count = new.token_count
            /\ max_tokens = new.max_tokens
            /\ model = m
            /\ summary_model = sm
            /\ models_data = data
            /\ last = [Op("__init__") EXCEPT
                           !.target = m, !.fetches = 1,
                           !.returned = ReturnsNone,
                           !.twin = Twin(new, m, data, ReturnsNone)]

----------------------------------------------------------------------------
(* Orchestrator operations *)

\* prompt(user_prompt, system_prompt)
Prompt(user_prompt, system_prompt, outcome) ==
    /\ Len(messages) + 2 <= MaxMsgs
    /\ SetMemory(prompt_memory(mem, user_prompt, system_prompt, outcome))
    /\ last' = [Op("prompt") EXCEPT
                    !.user = user_prompt,
                    !.sys = system_prompt,
                    !.outcome = outcome.kind,
                    !.why = outcome.why,
                    !.response = IF outcome.kind = "raise" THEN NoResponse
                                 ELSE venice_prompt(outcome),
                    !.calls = requests_posted(outcome, Call(model,
                        prompt_request_memory(mem, user_prompt, system_prompt).messages))]
    /\ UNCHANGED <<model, summary_model, models_data>>

\* summarize_memory(summary_prompt, model_override, buffer)
SummarizeMemory(summary_prompt, model_override, buffer, fetched, outcome) ==
    LET chosen == choose_summary_model(model_override, summary_model, model)
        data == ensure_models_loaded(models_data, fetched)
        trimmed == get_trimmed_messages_for_model(mem, data, chosen, summary_prompt, buffer)
    IN  /\ models_data' = data
        /\ last' = [Op("summarize_memory") EXCEPT
                        !.extra = summary_prompt,
                        !.target = model_override,
                        !.buffer = buffer,
                        !.outcome = outcome.kind,
                        !.why = outcome.why,
                        !.response = IF outcome.kind = "raise" THEN NoResponse
                                     ELSE venice_prompt(outcome),
                        !.summary = IF outcome.kind = "raise" THEN None
                                    ELSE summary_of(outcome),
                        !.trimmed = trimmed,
                        !.limit = trim_token_limit(data, chosen, mem),
                        !.calls = requests_posted(outcome, Call(chosen, trimmed)),
                        !.fetches = ensure_fetches(models_data)]
        /\ SetMemory(memory_after_trim(mem, trimmed))
        /\ model' = model_after_summarize(model, chosen, outcome)
        /\ UNCHANGED summary_model

\* get_trimmed_messages_for_model(model, summary_prompt, buffer)
GetTrimmed(name, summary_prompt, buffer, fetched) ==
    LET data == ensure_models_loaded(models_data, fetched)
        trimmed == get_trimmed_messages_for_model(mem, data, name, summary_prompt, buffer)
    IN  /\ models_data' = data
        /\ last' = [Op("get_trimmed_messages_for_model") EXCEPT
                        !.extra = summary_prompt,
                        !.target = name,
                        !.buffer = buffer,
                        !.trimmed = trimmed,
                        !.limit = trim_token_limit(data, name, mem),
                        !.fetches = ensure_fetches(models_data)]
        /\ SetMemory(memory_after_trim(mem, trimmed))
        /\ UNCHANGED <<model, summary_model>>

\* trim_and_summarize_if_needed(summary_prompt, model_override), over the threshold
TrimFires(summary_prompt, model_override, fetched, outcome) ==
    LET chosen == choose_summary_model(model_override, summary_model, model)
        data == ensure_models_loaded(models_data, fetched)
        trimmed == get_trimmed_messages_for_model(
                       mem, data, chosen, summary_prompt, DefaultBuffer)
    IN  /\ over_threshold(mem)
        /\ SetMemory(trim_memory(memory_after_trim(mem, trimmed), outcome))
        /\ models_data' = data
        /\ last' = [Op("trim_and_summarize_if_needed") EXCEPT
                        !.extra = summary_prompt,
                        !.target = model_override,
                        !.buffer = DefaultBuffer,
                        !.outcome = outcome.kind,
                        !.why = outcome.why,
                        !.response = IF outcome.kind = "raise" THEN NoResponse
                                     ELSE venice_prompt(outcome),
                        !.summary = IF outcome.kind = "raise" THEN None
                                    ELSE summary_of(outcome),
                        !.trimmed = trimmed,
                        !.limit = trim_token_limit(data, chosen, mem),
                        !.calls = requests_posted(outcome, Call(chosen, trimmed)),
                        !.fetches = ensure_fetches(models_data)]
        /\ model' = model_after_summarize(model, chosen, outcome)
        /\ UNCHANGED summary_model

\* trim_and_summarize_if_needed(summary_prompt, model_override), under the threshold
TrimSkips(summary_prompt, model_override) ==
    /\ ~over_threshold(mem)
    /\ SetMemory(trim_memory(mem, [kind |-> "fail", content |-> <<>>]))
    /\ last' = [Op("trim_and_summarize_if_needed") EXCEPT
                    !.extra = summary_prompt,
                    !.target = model_override]
    /\ UNCHANGED <<model, summary_model, models_data>>

\* clear_memory()
ClearMemory ==
    /\ SetMemory(clear_memory_state(mem))
    /\ last' = Op("clear_memory")
    /\ UNCHANGED <<model, summary_model, models_data>>

\* set_model(model_id)
SetModel(model_id, fetched) ==
    LET data == ensure_models_loaded(models_data, fetched)
    IN  /\ model' = model_id
        /\ models_data' = data
        /\ SetMemory(set_model_memory(mem, data, model_id))
        /\ last' = [Op("set_model") EXCEPT
                        !.target = model_id,
                        !.fetches = ensure_fetches(models_data)]
        /\ UNCHANGED summary_model

Overrides == {NoModel, "small"}

\* the outcomes of the fetch an operation may issue: none is issued once loaded
Fetches == IF models_data = {} THEN BOOLEAN ELSE {TRUE}

\* send, summarize, trim_if_needed, clear and switch_model
Next ==
    \/ \E u \in UserTexts, s \in SystemOverrides, o \in Outcomes : Prompt(u, s, o)
    \/ \E m \in Overrides, f \in Fetches, o \in Outcomes :
          SummarizeMemory(DefaultSummaryPrompt, m, DefaultBuffer, f, o)
    \/ \E m \in Overrides, f \in Fetches, o \in Outcomes :
          TrimFires(DefaultSummaryPrompt, m, f, o)
    \/ \E m \in Overrides : TrimSkips(DefaultSummaryPrompt, m)
    \/ ClearMemory
    \/ \E n \in Models, f \in Fetches : SetModel(n, f)

Spec == Init /\ [][Next]_vars

\* trim-to-fit asked of the memories the orchestrator builds
NextTrim ==
    \/ \E u \in UserTexts, s \in SystemOverrides, o \in Outcomes : Prompt(u, s, o)
    \/ \E m \in Overrides, f \in Fetches, o \in Outcomes :
          TrimFires(DefaultSummaryPrompt, m, f, o)
    \/ \E n \in Models, f \in Fetches : SetModel(n, f)
    \/ \E n \in Models, p \in SummaryPrompts, b \in Buffers, f \in Fetches :
          GetTrimmed(n, p, b, f)

SpecTrim == Init /\ [][NextTrim]_vars

----------------------------------------------------------------------------
(* Conversation Memory driven directly *)

Roles == {"user", "assistant"}
MemoryTexts == {<<>>, <<"a">>, <<"b", "b", "b">>}

MemAddMessage(role, content) ==
    /\ Len(messages) < MaxMsgs
    /\ SetMemory(add_message(mem, role, content))
    /\ last' = [Op("add_message") EXCEPT !.user = content]
    /\ UNCHANGED <<model, summary_model, models_data>>

MemUpdateSystemPrompt(text) ==
    /\ SetMemory(update_system_prompt(mem, text))
    /\ last' = [Op("update_system_prompt") EXCEPT !.sys = text]
    /\ UNCHANGED <<model, summary_model, models_data>>

MemReset(system_prompt) ==
    /\ SetMemory(reset(mem, system_prompt))
    /\ last' = [Op("reset") EXCEPT !.sys = system_prompt]
    /\ UNCHANGED <<model, summary_model, models_data>>

MemResetWithSummary(summary) ==
    /\ SetMemory(reset_with_summary(mem, summary))
    /\ last' = [Op("reset_with_summary") EXCEPT !.summary = summary]
    /\ UNCHANGED <<model, summary_model, models_data>>

NextMemory ==
    \/ \E r \in Roles, c \in MemoryTexts : MemAddMessage(r, c)
    \/ \E t \in MemoryTexts : MemUpdateSystemPrompt(t)
    \/ \E t \in {None, <<"s">>} : MemReset(t)
    \/ \E t \in MemoryTexts : MemResetWithSummary(t)

SpecMemory == Init /\ [][NextMemory]_vars

----------------------------------------------------------------------------
(* reset() and the add_message calls that follow it *)

AfterReset == last.op \in {"reset", "reset, add_message"}

\* add_message, called after reset() and add_message calls only
MemAddAfterReset(role, content) ==
    /\ Len(messages) < MaxMsgs
    /\ SetMemory(add_message(mem, role, content))
    /\ last' = [Op("reset, add_message") EXCEPT !.user = content]
    /\ UNCHANGED <<model, summary_model, models_data>>

NextReset ==
    \/ ~AfterReset /\ \E r \in Roles, c \in MemoryTexts : MemAddMessage(r, c)
    \/ ~AfterReset /\ \E t \in MemoryTexts : MemUpdateSystemPrompt(t)
    \/ ~AfterReset /\ \E t \in MemoryTexts : MemResetWithSummary(t)
    \/ \E t \in {None, <<"s">>} : MemReset(t)
    \/ AfterReset /\ \E r \in Roles, c \in MemoryTexts : MemAddAfterReset(r, c)

SpecReset == Init /\ [][NextReset]_vars

----------------------------------------------------------------------------
(* send under every kind of transport failure *)

NextSend ==
    \/ \E u \in UserTexts, s \in SystemOverrides, o \in SendOutcomes : Prompt(u, s, o)
    \/ ClearMemory

SpecSend == Init /\ [][NextSend]_vars

----------------------------------------------------------------------------
(* parse_response on the JSON bodies the endpoint can serve *)

\* "choices": absent, [], [{}], [{"message": {}}], [{"message": {"content": c}}]
ChoicesShapes == {"missing", "empty", "no message", "no content", "content"}

ParsedFields == {"think", "response", "citations", "model", "created", "usage"}

\* a served body: the shape of its choices, the content when it has one, and
\* whether it carries model, created and usage
Bodies ==
    {[choices |-> ch, content |-> c, model |-> m, created |-> cr, usage |-> u] :
        ch \in ChoicesShapes \ {"content"}, c \in {<<>>},
        m \in BOOLEAN, cr \in BOOLEAN, u \in BOOLEAN}
    \cup
    {[choices |-> "content", content |-> c, model |-> m, created |-> cr, usage |-> u] :
        c \in Contents, m \in BOOLEAN, cr \in BOOLEAN, u \in BOOLEAN}

\* response_json.get('choices', [{}])[0]: an empty list has no element 0
choices_0_raises(body) == body.choices = "empty"

\* the dictionary parse_response returns for a body it does not raise on
parsed_response(body) ==
    LET text == parse_response(body.content)
    IN  [k \in ParsedFields |->
            CASE k = "think" -> text.think
              [] k = "response" -> text.response
              [] k = "citations" -> <<>>
              [] k = "model" -> IF body.model THEN <<"served">> ELSE <<"N/A">>
              [] k = "created" -> IF body.created THEN <<"served">> ELSE <<"N/A">>
              [] k = "usage" -> IF body.usage THEN <<"served">> ELSE <<>>]

\* VeniceTextPrompt.parse_response(response_json)
ParseResponse(body) ==
    /\ last' = [Op("parse_response") EXCEPT
                    !.extra = body.content,
                    !.target = body.choices,
                    !.outcome = IF choices_0_raises(body) THEN "raise" ELSE "ok",
                    !.why = IF choices_0_raises(body) THEN "IndexError" ELSE "none",
                    !.parsed = IF choices_0_raises(body) THEN <<>>
                               ELSE parsed_response(body)]
    /\ UNCHANGED <<messages, token_count, max_tokens, model, summary_model, models_data>>

NextParse == \E body \in Bodies : ParseResponse(body)

SpecParse == Init /\ [][NextParse]_vars

----------------------------------------------------------------------------
(* DocumentManager: save_to_file, then load_from_file in a fresh manager *)

\* a JSON string and a JSON object of a detail's payload, both as sequences of
\* strings so that a key holding either can be compared
JsonStr(text) == <<"str", text>>
DetailPayload(detail) == <<"obj", detail.model, detail.user_prompt, detail.parameters>>

HeaderKeys == {"document_id", "system_prompt"}
DetailNames == {"summary", "evaluation", "system_prompt"}
DocumentIds == {"doc_001"}
DocumentPrompts == {"", "Summarize and analyze"}
Details ==
    {[model |-> m, user_prompt |-> "Summarize this document.",
      parameters |-> "{temperature: 0.7}", results |-> r] :
        m \in {"gpt-4", "gpt-3"}, r \in {"This is a summary."}}

\* the managers the example builds: a header and one or two details, the
\* names in the order they were added
Managers ==
    {[header |-> [document_id |-> JsonStr(d), system_prompt |-> JsonStr(p)],
      names |-> ns, documents |-> ds] :
        d \in DocumentIds, p \in DocumentPrompts,
        ns \in {<<a>> : a \in DetailNames}
               \cup ({<<a, b>> : a, b \in DetailNames} \ {<<a, a>> : a \in DetailNames}),
        ds \in [DetailNames -> Details]}

\* hashlib.sha256(json.dumps(hash_input, sort_keys=True, ...)): taken to be
\* free of collisions, so a digest stands for the input it was computed from
sha256(hash_input) == hash_input

\* the loop of to_structured_output over the first i names: payload[name] is
\* assigned into the dictionary that already holds document_id and
\* system_prompt, and the hash input reads both values back from it
RECURSIVE structured_loop(_, _)
structured_loop(manager, i) ==
    IF i = 0
    THEN [payload |-> [k \in HeaderKeys |-> manager.header[k]],
          keys |-> <<"document_id", "system_prompt">>,
          response |-> [k \in {} |-> ""],
          hashes |-> [k \in {} |-> [j \in {} |-> <<>>]]]
    ELSE LET before == structured_loop(manager, i - 1)
             name == manager.names[i]
             payload == [k \in DOMAIN before.payload \cup {name} |->
                            IF k = name THEN DetailPayload(manager.documents[name])
                            ELSE before.payload[k]]
             hash_input == [k \in HeaderKeys \cup {name} |-> payload[k]]
         IN  [payload |-> payload,
              keys |-> IF name \in DOMAIN before.payload THEN before.keys
                       ELSE Append(before.keys, name),
              response |-> [k \in DOMAIN before.response \cup {name} |->
                               IF k = name THEN manager.documents[name].results
                               ELSE before.response[k]],
              hashes |-> [k \in DOMAIN before.hashes \cup {name} |->
                             IF k = name THEN sha256(hash_input)
                             ELSE before.hashes[k]]]

to_structured_output(manager) == structured_loop(manager, Len(manager.names))

\* get_hash(name): the set holding the digest, empty for None
get_hash(manager, name) ==
    LET hashes == to_structured_output(manager).hashes
    IN  IF name \in DOMAIN hashes THEN {hashes[name]} ELSE {}

\* matches_hash(name, prompt_hash): hashes.get(name) == prompt_hash
matches_hash(manager, name, prompt_hash) == get_hash(manager, name) = prompt_hash

\* the names from_structured_dict reads back: the keys of payload in order,
\* document_id and system_prompt passed over
RECURSIVE loaded_names(_)
loaded_names(keys) ==
    IF keys = <<>> THEN <<>>
    ELSE IF Head(keys) \in HeaderKeys THEN loaded_names(Tail(keys))
    ELSE <<Head(keys)>> \o loaded_names(Tail(keys))

\* from_structured_dict(data) in a fresh manager
from_structured_dict(data) ==
    LET names == loaded_names(data.keys)
    IN  [header |-> [k \in HeaderKeys |-> data.payload[k]],
         names |-> names,
         documents |-> [n \in {names[i] : i \in 1..Len(names)} |->
                          [model |-> data.payload[n][2],
                           user_prompt |-> data.payload[n][3],
                           parameters |-> data.payload[n][4],
                           results |-> data.response[n]]]]

\* save_to_file() and, in a fresh manager on the same path, load_from_file()
SaveThenLoad(manager) ==
    LET saved == manager.names # <<>>
        loaded == from_structured_dict(to_structured_output(manager))
        names == {manager.names[i] : i \in 1..Len(manager.names)}
    IN  /\ last' = [Op("save_to_file, load_from_file") EXCEPT
                        !.docs = [names |-> names,
                                  saved |-> saved,
                                  loaded |-> saved,
                                  saving_hash |-> [n \in names |-> get_hash(manager, n)],
                                  loaded_hash |-> [n \in names |-> get_hash(loaded, n)],
                                  matches |-> [n \in names |->
                                      matches_hash(loaded, n, get_hash(loaded, n))]]]
        /\ UNCHANGED <<messages, token_count, max_tokens, model, summary_model, models_data>>

NextDocuments == \E manager \in Managers : SaveThenLoad(manager)

SpecDocuments == Init /\ [][NextDocuments]_vars

----------------------------------------------------------------------------
(* The two orchestrators given the same calls and the same responses *)

\* the step of one call: the first orchestrator in the variables, the second
\* in last.twin
TwinStep(name, memory, active, data, returned, twin) ==
    /\ SetMemory(memory)
    /\ model' = active
    /\ models_data' = data
    /\ last' = [Op(name) EXCEPT !.returned = returned, !.twin = twin]
    /\ UNCHANGED summary_model

TwinPrompt(user_prompt, system_prompt, outcome) ==
    /\ Len(messages) + 2 <= MaxMsgs
    /\ TwinStep("prompt",
                prompt_memory(mem, user_prompt, system_prompt, outcome),
                model, models_data, prompt_returns(outcome),
                Twin(client_prompt_memory(last.twin.memory, user_prompt,
                                          system_prompt, outcome),
                     last.twin.model, last.twin.models_data,
                     client_prompt_returns(outcome)))

TwinSummarizeMemory(summary_prompt, model_override, buffer, fetched, outcome) ==
    TwinStep("summarize_memory", mem, model,
             ensure_models_loaded(models_data, fetched),
             summarize_returns(outcome),
             Twin(last.twin.memory, last.twin.model,
                  ensure_models_loaded(last.twin.models_data, fetched),
                  client_summarize_returns(outcome)))

TwinGetTrimmed(name, summary_prompt, buffer, fetched) ==
    LET data == ensure_models_loaded(models_data, fetched)
        client_data == ensure_models_loaded(last.twin.models_data, fetched)
    IN  TwinStep("get_trimmed_messages_for_model", mem, model, data,
                 Returned({}, <<>>, <<>>,
                     get_trimmed_messages_for_model(mem, data, name,
                                                    summary_prompt, buffer)),
                 Twin(last.twin.memory, last.twin.model, client_data,
                      Returned({}, <<>>, <<>>,
                          client_get_trimmed_messages_for_model(
                              last.twin.memory, client_data, name,
                              summary_prompt, buffer))))

TwinTrimIfNeeded(fetched, outcome) ==
    TwinStep("trim_and_summarize_if_needed",
             trim_memory(mem, outcome), model,
             IF over_threshold(mem) THEN ensure_models_loaded(models_data, fetched)
             ELSE models_data,
             trim_returns(mem, outcome),
             Twin(client_trim_memory(last.twin.memory, outcome), last.twin.model,
                  IF over_threshold(last.twin.memory)
                  THEN ensure_models_loaded(last.twin.models_data, fetched)
                  ELSE last.twin.models_data,
                  client_trim_returns(last.twin.memory, outcome)))

TwinClearMemory ==
    TwinStep("clear_memory", clear_memory_state(mem), model, models_data, ReturnsNone,
             Twin(client_clear_memory_state(last.twin.memory), last.twin.model,
                  last.twin.models_data, ReturnsNone))

TwinSetModel(model_id, fetched) ==
    LET data == ensure_models_loaded(models_data, fetched)
        client_data == ensure_models_loaded(last.twin.models_data, fetched)
    IN  TwinStep("set_model", set_model_memory(mem, data, model_id), model_id, data,
                 ReturnsNone,
                 Twin(client_set_model_memory(last.twin.memory, client_data, model_id),
                      model_id, client_data, ReturnsNone))

NextTwin ==
    \/ \E u \in UserTexts, s \in SystemOverrides, o \in Outcomes : TwinPrompt(u, s, o)
    \/ \E m \in Overrides, f \in Fetches, o \in Outcomes :
          TwinSummarizeMemory(DefaultSummaryPrompt, m, DefaultBuffer, f, o)
    \/ \E n \in Models, f \in Fetches : TwinGetTrimmed(n, <<"S">>, 0, f)
    \/ \E f \in Fetches, o \in Outcomes : TwinTrimIfNeeded(f, o)
    \/ TwinClearMemory
    \/ \E n \in Models, f \in Fetches : TwinSetModel(n, f)

SpecTwin == Init /\ [][NextTwin]_vars

----------------------------------------------------------------------------
(* Properties *)

IsOp(name) == last.op = name
NextOp(name) == last'.op = name

\* the history messages a trimmed sequence keeps: all but the leading system
\* message and the trailing extra prompt
Kept(trimmed) == SubSeq(trimmed, 2, Len(trimmed) - 1)

RECURSIVE CostOf(_)
CostOf(msgs) ==
    IF msgs = <<>> THEN 0 ELSE TextLen(Head(msgs).content) + CostOf(Tail(msgs))

\* limit(model) - buffer - cost(extra) of the last trim-to-fit
Budget == last.limit - last.buffer - TextLen(last.extra)

OverEightyPercent(count, limit) == 10 * count > 8 * limit

TrimFired ==
    /\ IsOp("trim_and_summarize_if_needed")
    /\ last.calls # <<>>
    /\ last.outcome # "raise"

\* C1: after any sequence of add_message, update_system_prompt, reset and
\* reset_with_summary, token_count is the sum of the costs of the messages held
C1_TokenCountIsSum == token_count = CostOf(messages)

C1_Witness ==
    /\ IsOp("update_system_prompt")
    /\ Len(messages) >= 3
    /\ messages[1].content # DefaultSystemPrompt
    /\ token_count > 0

\* C2: through prompt, summarize_memory, trim_and_summarize_if_needed,
\* clear_memory and set_model the messages are never empty, the first is the
\* system message and no other message is a system message
C2_SystemFirstOnly ==
    /\ Len(messages) >= 1
    /\ messages[1].role = "system"
    /\ \A i \in 2..Len(messages) : messages[i].role # "system"

C2_Witness ==
    /\ IsOp("prompt")
    /\ Truthy(last.sys)
    /\ messages[1].content = last.sys
    /\ Len(messages) >= 3

\* C3 as stated: the kept history never costs more than
\* limit(model) - buffer - cost(extra), also when that is zero or negative
C3_Original ==
    IsOp("get_trimmed_messages_for_model") => CostOf(Kept(last.trimmed)) <= Budget

\* C3: the kept history never costs more than limit(model) - buffer - cost(extra)
\* when that is zero or more, and no history is kept when it is negative
C3_KeptWithinBudget ==
    IsOp("get_trimmed_messages_for_model") =>
        /\ Budget >= 0 => CostOf(Kept(last.trimmed)) <= Budget
        /\ Budget < 0 => Kept(last.trimmed) = <<>>

C3_Witness ==
    /\ IsOp("get_trimmed_messages_for_model")
    /\ Budget >= 0
    /\ Kept(last.trimmed) # <<>>
    /\ Len(Kept(last.trimmed)) < Len(messages) - 1

\* C4: the history messages trim-to-fit keeps stand in the order they have in
\* the memory
C4_KeptInMemoryOrder ==
    IsOp("get_trimmed_messages_for_model") =>
        LET kept == Kept(last.trimmed)
            history == Tail(messages)
        IN  \E f \in [1..Len(kept) -> 1..Len(history)] :
                /\ \A j, k \in 1..Len(kept) : j < k => f[j] < f[k]
                /\ \A k \in 1..Len(kept) : kept[k] = history[f[k]]

C4_Witness ==
    /\ IsOp("get_trimmed_messages_for_model")
    /\ Len(Kept(last.trimmed)) >= 2
    /\ Kept(last.trimmed)[1] # Kept(last.trimmed)[2]

PromptFailed == NextOp("prompt") /\ last'.outcome \in {"fail", "raise"}

\* C5 as stated: a prompt whose request fails changes the memory by the
\* appended user message alone, the system message included in what is unchanged
C5_Original ==
    [][PromptFailed => messages' = Append(messages, Msg("user", last'.user))]_vars

\* C5: a prompt whose request fails appends the user message and no reply,
\* leaves every stored message after the first unchanged, and changes the
\* system message only to a non-empty system_prompt it was given
C5_FailedPromptAppendsUser ==
    [][PromptFailed =>
        /\ messages' =
              Append(IF Truthy(last'.sys)
                     THEN [messages EXCEPT ![1] = Msg("system", last'.sys)]
                     ELSE messages,
                     Msg("user", last'.user))
        /\ token_count' = CostOf(messages')
        /\ max_tokens' = max_tokens]_vars

C5_Witness ==
    /\ IsOp("prompt")
    /\ last.outcome = "fail"
    /\ Truthy(last.sys)
    /\ messages[1].content = last.sys
    /\ Len(messages) = 3
    /\ messages[3] = Msg("user", last.user)

\* C6: summarize_memory leaves messages, token_count and max_tokens as they
\* were, whatever the request comes to
C6_SummarizeKeepsMemory ==
    [][NextOp("summarize_memory") =>
        UNCHANGED <<messages, token_count, max_tokens>>]_vars

C6_Witness ==
    /\ IsOp("summarize_memory")
    /\ last.outcome = "ok"
    /\ Len(messages) >= 3
    /\ Len(Kept(last.trimmed)) < Len(messages) - 1

C8_OnlyTrimCompacts ==
    [][NextOp("prompt") \/ NextOp("summarize_memory") \/ NextOp("set_model") =>
        /\ Len(messages') >= Len(messages)
        /\ \A i \in 2..Len(messages) : messages'[i] = messages[i]
        /\ NextOp("prompt") => Len(messages') > Len(messages)]_vars

\* a prompt that ended with a reply, sent when token_count was over max_tokens
C8_Witness ==
    /\ IsOp("prompt")
    /\ last.sys = None
    /\ last.response.ok
    /\ token_count - TextLen(last.user) - TextLen(last.response.response) > max_tokens
    /\ messages[Len(messages)].role = "assistant"

\* C9: set_model with a model whose limit the registry does not resolve keeps
\* max_tokens and makes the model the active one
C9_UnknownModelKeepsBudget ==
    [][(NextOp("set_model")
        /\ get_tokens_by_model_name(models_data', last'.target) = Unknown) =>
        /\ max_tokens' = max_tokens
        /\ model' = last'.target
        /\ UNCHANGED <<messages, token_count>>]_vars

C9_Witness ==
    /\ IsOp("set_model")
    /\ model = "mystery"
    /\ models_data # {}
    /\ max_tokens = 20

\* C10 as stated: right after reset_with_summary token_count is never over 80%
\* of max_tokens
C10_Original == TrimFired => ~OverEightyPercent(token_count, max_tokens)

\* C10: right after reset_with_summary token_count is the cost of the system
\* message plus the cost of the summary, so it is over 80% of max_tokens
\* exactly when that sum is
C10_AfterResetWithSummary ==
    TrimFired =>
        LET base == TextLen(messages[1].content) + TextLen(last.summary)
        IN  /\ token_count = base
            /\ over_threshold(mem) <=> OverEightyPercent(base, max_tokens)

C10_Witness ==
    /\ TrimFired
    /\ last.outcome = "ok"
    /\ ~over_threshold(mem)


\* a memory created with the system message and given the add_message calls
RECURSIVE Seeded(_, _)
Seeded(fresh, calls) ==
    IF calls = <<>> THEN fresh
    ELSE Seeded(add_message(fresh, Head(calls).role, Head(calls).content), Tail(calls))

\* C11: after reset() and any add_message calls, messages and token_count are
\* those of a memory newly created with the same system message and given the
\* same add_message calls
C11_ResetIsFresh ==
    AfterReset =>
        mem = Seeded(NewMemory(messages[1].content, max_tokens), Tail(messages))

C11_Witness ==
    /\ IsOp("reset, add_message")
    /\ Len(messages) >= 3
    /\ token_count > TextLen(messages[1].content)


\* the memory a send starts from, after its optional system-prompt update
SendUpdated ==
    IF Truthy(last'.sys)
    THEN <<Msg("system", last'.sys)>> \o Tail(messages)
    ELSE messages

\* C12: a send whose transport call succeeds makes exactly one transport call,
\* carrying the history after the optional system-prompt update followed by
\* the user message as its last element, and leaves in memory that sequence
\* followed by the assistant message holding the reply text
C12_SendOrder ==
    [][(NextOp("prompt") /\ last'.outcome = "ok") =>
        LET request == Append(SendUpdated, Msg("user", last'.user))
        IN  /\ last'.calls = <<Call(model, request)>>
            /\ request[Len(request)] = Msg("user", last'.user)
            /\ messages' = Append(request,
                                  Msg("assistant", last'.response.response))]_vars

C12_Witness ==
    /\ IsOp("prompt")
    /\ last.outcome = "ok"
    /\ last.sys = <<"s">>
    /\ Len(messages) = 4
    /\ messages[1] = Msg("system", <<"s">>)
    /\ messages[3] = Msg("user", last.user)
    /\ messages[4] = Msg("assistant", <<" ", "r">>)
    /\ last.calls[1].messages = SubSeq(messages, 1, 3)


\* C13: a send whose transport call fails by a network error, an HTTP error, a
\* timeout or a remote error payload raises nothing and returns None, and
\* leaves the orchestrator as any send leaves it: the user message appended to
\* a well-formed memory, the models and the registry untouched
C13_FailuresReturnNone ==
    [][(NextOp("prompt") /\ last'.why \in Failures) =>
        /\ last'.outcome = "fail"
        /\ last'.response = NoResponse
        /\ messages' = Append(SendUpdated, Msg("user", last'.user))
        /\ token_count' = SumCost(messages')
        /\ UNCHANGED <<max_tokens, model, summary_model, models_data>>]_vars

C13_Witness ==
    /\ IsOp("prompt")
    /\ last.why = "ReadTimeout"
    /\ last.outcome = "fail"
    /\ Len(messages) = 3
    /\ messages[2].role = "user"
    /\ messages[3] = Msg("user", last.user)


\* C14: parsing a served body with any expected field missing, a body with no
\* choices or an empty choices list included, never raises, and the parsed
\* result carries think, response, model, created and usage
C14_Original ==
    IsOp("parse_response") =>
        /\ last.outcome # "raise"
        /\ {"think", "response", "model", "created", "usage"} \subseteq DOMAIN last.parsed


\* the model summarize is to use: the override, else the configured summary
\* model, else the active model
SummaryModelByPriority ==
    IF last.target # NoModel THEN last.target
    ELSE IF summary_model # NoModel THEN summary_model
    ELSE model

\* C15: summarize trims to the limit of, and sends its request to, the
\* override model if one is given, otherwise the configured summary model if
\* one was set, otherwise the active model
C15_SummaryModelPriority ==
    IsOp("summarize_memory") =>
        /\ last.calls = <<Call(SummaryModelByPriority, last.trimmed)>>
        /\ last.limit =
              (IF IsInt(get_tokens_by_model_name(models_data, SummaryModelByPriority))
               THEN get_tokens_by_model_name(models_data, SummaryModelByPriority)[1]
               ELSE max_tokens)
        /\ last.trimmed = get_trimmed_messages_for_model(
                              mem, models_data, SummaryModelByPriority,
                              last.extra, last.buffer)

C15_Witness ==
    /\ IsOp("summarize_memory")
    /\ last.target = NoModel
    /\ summary_model = "big"
    /\ model = "small"
    /\ models_data # {}
    /\ last.calls[1].model = "big"
    /\ last.limit = 250


\* the fallback text as the specification words it
NoSummaryAvailable ==
    <<"n", "o", " ", "s", "u", "m", "m", "a", "r", "y", " ",
      "a", "v", "a", "i", "l", "a", "b", "l", "e">>

\* C16 as stated: summarize returns "no summary available" when the transport
\* fails and the response text when it succeeds
C16_Original ==
    IsOp("summarize_memory") =>
        /\ last.outcome = "fail" => last.summary = NoSummaryAvailable
        /\ last.outcome = "ok" => last.summary = last.response.response

\* C16: when the transport returns no response summarize returns the text
\* "Summary not available."; when it returns one, summarize returns its
\* response text with leading and trailing whitespace stripped; when the
\* transport call raises, summarize returns nothing
C16_SummaryOrFallback ==
    IsOp("summarize_memory") =>
        /\ last.outcome = "fail" =>
              ~last.response.ok /\ last.summary = SummaryFallback
        /\ last.outcome = "ok" =>
              last.response.ok /\ last.summary = Strip(last.response.response)
        /\ last.outcome = "raise" => last.summary = None

C16_Witness ==
    /\ IsOp("summarize_memory")
    /\ last.outcome = "fail"
    /\ last.why \in Failures
    /\ last.summary = SummaryFallback
    /\ last.summary # NoSummaryAvailable


\* the last n messages of a history
Suffix(history, n) == SubSeq(history, Len(history) - n + 1, Len(history))

\* the longest suffix of a history whose cost is within room, empty when not
\* even the newest message is
LongestSuffixWithin(history, room) ==
    LET n == CHOOSE k \in 0..Len(history) :
                 /\ k = 0 \/ CostOf(Suffix(history, k)) <= room
                 /\ k < Len(history) => CostOf(Suffix(history, k + 1)) > room
    IN  Suffix(history, n)

TrimTargetUnknown ==
    /\ IsOp("get_trimmed_messages_for_model")
    /\ get_tokens_by_model_name(models_data, last.target) = Unknown

\* C17: trim-to-fit for a model whose limit the registry does not know takes
\* the memory's current max_tokens as the limit and returns a sequence trimmed
\* to it: the system message, the newest history that fits max_tokens less the
\* buffer and the cost of the extra prompt, and the extra prompt
C17_UnknownLimitUsesMaxTokens ==
    TrimTargetUnknown =>
        /\ last.limit = max_tokens
        /\ last.trimmed =
              <<messages[1]>>
              \o LongestSuffixWithin(Tail(messages),
                     max_tokens - last.buffer - TextLen(last.extra)
                         - TextLen(messages[1].content))
              \o <<Msg("user", last.extra)>>

C17_Witness ==
    /\ TrimTargetUnknown
    /\ last.target = "mystery"
    /\ models_data # {}
    /\ max_tokens < DefaultMaxTokens
    /\ Kept(last.trimmed) # <<>>
    /\ Len(last.trimmed) < Len(messages) + 1


\* C18: the sequence trim-to-fit returns begins with the memory's system
\* message and ends with the user message holding the extra prompt; when the
\* system message alone costs more than the budget it is exactly those two
C18_SystemFirstExtraLast ==
    IsOp("get_trimmed_messages_for_model") =>
        /\ Len(last.trimmed) >= 2
        /\ last.trimmed[1] = messages[1]
        /\ last.trimmed[1].role = "system"
        /\ last.trimmed[Len(last.trimmed)] = Msg("user", last.extra)
        /\ TextLen(messages[1].content) > Budget =>
              last.trimmed = <<messages[1], Msg("user", last.extra)>>

C18_Witness ==
    /\ IsOp("get_trimmed_messages_for_model")
    /\ TextLen(messages[1].content) > Budget
    /\ Len(messages) >= 3
    /\ last.trimmed = <<messages[1], Msg("user", last.extra)>>


\* C19 as stated: the kept history is the longest suffix of the non-system
\* history whose cost is within limit(model) - buffer - cost(extra)
C19_Original ==
    IsOp("get_trimmed_messages_for_model") =>
        Kept(last.trimmed) = LongestSuffixWithin(Tail(messages), Budget)

\* C19: the kept history is the longest suffix of the non-system history whose
\* cost, added to the cost of the system message, is within
\* limit(model) - buffer - cost(extra): the walk stops at the first message
\* that would overflow and keeps nothing older
C19_KeptIsLongestFittingSuffix ==
    IsOp("get_trimmed_messages_for_model") =>
        Kept(last.trimmed) =
            LongestSuffixWithin(Tail(messages),
                                Budget - TextLen(messages[1].content))

C19_Witness ==
    /\ IsOp("get_trimmed_messages_for_model")
    /\ Len(messages) = 4
    /\ Len(Kept(last.trimmed)) = 1
    /\ TextLen(messages[2].content) + TextLen(messages[4].content)
          + TextLen(messages[1].content) <= Budget
    /\ CostOf(Tail(messages)) <= Budget


\* the operation just done reads a model limit after _ensure_models_loaded
NeedsLimit ==
    \/ last'.op \in {"set_model", "get_trimmed_messages_for_model", "summarize_memory"}
    \/ last'.op = "trim_and_summarize_if_needed" /\ last'.calls # <<>>

\* C20: construction fetches the registry once; switch_model and trim-to-fit
\* (alone, under summarize or under a trim_if_needed that fires) fetch exactly
\* once when the mapping is empty, also after an earlier fetch failed and left
\* it empty, and not at all when it is loaded, which they leave as it is
C20_LazyLoad ==
    /\ IsOp("__init__") => last.fetches = 1
    /\ [][NeedsLimit =>
            /\ models_data = {} =>
                  last'.fetches = 1 /\ models_data' \in {{}, Registry}
            /\ models_data # {} =>
                  last'.fetches = 0 /\ models_data' = models_data]_vars

C20_Witness ==
    /\ IsOp("get_trimmed_messages_for_model")
    /\ last.fetches = 1
    /\ models_data = {}
    /\ Len(messages) >= 3


\* C21: a send, a summarize and a trim_if_needed each post at most one
\* request; one that ends in a timeout or transport error has posted exactly
\* one and returns the failure value, None from send and the fallback text
\* from summarize
C21_NoRetry ==
    last.op \in {"prompt", "summarize_memory", "trim_and_summarize_if_needed"} =>
        /\ Len(last.calls) <= 1
        /\ last.outcome = "fail" =>
              /\ Len(last.calls) = 1
              /\ last.response = NoResponse
              /\ IsOp("summarize_memory") => last.summary = SummaryFallback

C21_Witness ==
    /\ IsOp("prompt")
    /\ last.outcome = "fail"
    /\ Len(last.calls) = 1
    /\ last.calls[1].messages = messages
    /\ Len(messages) = 3


\* C22: a trim_if_needed that follows a trim_if_needed which returned, with no
\* operation in between, leaves the memory as the first one left it
C22_Original ==
    [][(IsOp("trim_and_summarize_if_needed") /\ last.outcome # "raise"
            /\ NextOp("trim_and_summarize_if_needed")) =>
        UNCHANGED <<messages, token_count, max_tokens>>]_vars


\* C23: for a manager with a header and at least one detail, save_to_file and
\* load_from_file in a fresh manager succeed, and for every detail name the
\* loaded manager's hash is non-empty, equals the saving manager's hash, and
\* matches itself
C23_Original ==
    IsOp("save_to_file, load_from_file") =>
        /\ last.docs.saved
        /\ last.docs.loaded
        /\ \A n \in last.docs.names :
              /\ last.docs.loaded_hash[n] # {}
              /\ last.docs.loaded_hash[n] = last.docs.saving_hash[n]
              /\ last.docs.matches[n]


\* C24: after clear_memory the messages are the system message alone, as it
\* stood before the call, token_count is the cost of that message, and
\* max_tokens, the active model, the summary model and the registry are as
\* they were
C24_ClearKeepsSystemOnly ==
    [][NextOp("clear_memory") =>
        /\ messages' = <<messages[1]>>
        /\ messages'[1].role = "system"
        /\ token_count' = TextLen(messages[1].content)
        /\ UNCHANGED <<max_tokens, model, summary_model, models_data>>]_vars

C24_Witness ==
    /\ IsOp("clear_memory")
    /\ messages = <<Msg("system", <<"s">>)>>
    /\ token_count = 1
    /\ max_tokens = 20
    /\ model = "mystery"


\* C25: update_system_prompt(text) changes only the content of message 0: the
\* number of messages, the role of message 0 and every later message stay,
\* and token_count becomes the sum over the sequence with the new system
\* message
C25_UpdateSystemPromptFrame ==
    [][NextOp("update_system_prompt") =>
        /\ Len(messages') = Len(messages)
        /\ messages'[1] = Msg("system", last'.sys)
        /\ Tail(messages') = Tail(messages)
        /\ token_count' = TextLen(last'.sys) + CostOf(Tail(messages))
        /\ max_tokens' = max_tokens]_vars

C25_Witness ==
    /\ IsOp("update_system_prompt")
    /\ Len(messages) >= 3
    /\ messages[1] = Msg("system", <<"b", "b", "b">>)
    /\ token_count > 3


\* C26: when summarize_memory ends, by returning or by the transport call
\* raising, the transport's model is the model that was active before the
\* call, also when the request went to another model
C26_SummarizeRestoresModel ==
    [][NextOp("summarize_memory") =>
        /\ model' = model
        /\ summary_model' = summary_model]_vars

C26_Witness ==
    /\ IsOp("summarize_memory")
    /\ last.outcome = "raise"
    /\ Len(last.calls) = 1
    /\ last.calls[1].model # model


\* C27: a trim_if_needed that fires and whose summary request fails still
\* compacts: the history is dropped and the messages become the system
\* message followed by a user message holding the fallback text
C27_FailedSummaryStillCompacts ==
    [][(NextOp("trim_and_summarize_if_needed") /\ over_threshold(mem)
            /\ last'.outcome = "fail") =>
        /\ last'.summary = SummaryFallback
        /\ messages' = <<messages[1], Msg("user", SummaryFallback)>>
        /\ token_count' = TextLen(messages[1].content) + TextLen(SummaryFallback)
        /\ max_tokens' = max_tokens]_vars

C27_Witness ==
    /\ TrimFired
    /\ last.outcome = "fail"
    /\ last.why \in Failures
    /\ messages = <<Msg("system", DefaultSystemPrompt), Msg("user", SummaryFallback)>>


\* C28: whenever trim-to-fit keeps at least one history message, the cost of
\* the system message plus the cost of the kept history is at most
\* limit(model) - buffer - cost(extra)
C28_SystemCharged ==
    (IsOp("get_trimmed_messages_for_model") /\ Kept(last.trimmed) # <<>>) =>
        TextLen(last.trimmed[1].content) + CostOf(Kept(last.trimmed)) <= Budget

C28_Witness ==
    /\ IsOp("get_trimmed_messages_for_model")
    /\ Kept(last.trimmed) # <<>>
    /\ Len(Kept(last.trimmed)) < Len(messages) - 1
    /\ CostOf(Tail(messages)) <= Budget
    /\ TextLen(messages[1].content) + CostOf(Kept(last.trimmed)) <= Budget


\* C29: in every memory the orchestrator operations reach, a message with role
\* assistant stands right after a message with role user, so no two assistant
\* messages are consecutive
C29_AssistantFollowsUser ==
    \A i \in 1..Len(messages) :
        messages[i].role = "assistant" => (i > 1 /\ messages[i - 1].role = "user")

C29_Witness ==
    /\ IsOp("prompt")
    /\ Len(messages) = 4
    /\ messages[2].role = "user"
    /\ messages[3].role = "user"
    /\ messages[4].role = "assistant"


\* C30: the orchestrators of prompt_chat.py and venice_client.py, given the
\* same calls with the same transport and registry responses, return the same
\* values and have the same messages, token_count, max_tokens and active model
\* after every step
C30_Original ==
    /\ last.twin.returned = last.returned
    /\ last.twin.memory = mem
    /\ last.twin.model = model

====
